---------------------------- MODULE Spec2Model ----------------------------
(***************************************************************************)
(* Model of the deterministic tool exclusion service                       *)
(* (browser_use/controller/exclusion/service.py and views.py).             *)
(*                                                                         *)
(* A caller builds an ExclusionContext for one decision step and hands it  *)
(* to ToolExclusionService.get_excluded_tools / get_exclusion_stats.  The  *)
(* service holds one attribute, exclusion_rules (an ExclusionRules).       *)
(* Spec and SpecRules take each call as one step of one caller;            *)
(* SpecConcurrent runs the calls of several sessions statement by          *)
(* statement, interleaved.                                                 *)
(*                                                                         *)
(* Representation of Python values                                         *)
(*   str            a tool name, which the code only compares for equality,*)
(*                  is a string.  Any other str is a sequence of text      *)
(*                  fragments, and startswith, `in`, lower and strip work  *)
(*                  on the fragments.  The fragments used                  *)
(*                  are chosen so that no searched literal straddles a     *)
(*                  fragment boundary: fragment-level prefix/substring     *)
(*                  agrees with character-level prefix/substring.          *)
(*   list           a sequence                                             *)
(*   dict           a function on its keys (<< >> is the empty dict)       *)
(*   Optional[T]    None is << >>, a present value x is <<x>>              *)
(*   object         a record; hasattr(o, a) is a \in DOMAIN o              *)
(*   a call         a record [exc, val]: exc is "" when the call returns   *)
(*                  val, and the exception's name when it raises           *)
(***************************************************************************)
EXTENDS Integers, Sequences, FiniteSets, TLC

VARIABLES
    exclusion_rules,  \* self.exclusion_rules of the one service instance
    step_context,     \* Optional: the caller's ExclusionContext for this step
    returned_tools,   \* Optional: what get_excluded_tools returned for it
    returned_stats,   \* Optional: what get_exclusion_stats returned for it
    raised,           \* name of the exception the last call raised, or ""
    frames            \* per session: the frame of its call in flight, if any

vars ==
    <<exclusion_rules, step_context, returned_tools, returned_stats, raised,
      frames>>

---------------------------------------------------------------------------
(* Bounds of the model *)

\* A snapshot differs from a base snapshot in at most this many fields.
MaxVaried == 2
\* Same, for the specification in which the caller also edits the rules.
MaxVariedRules == 1
\* Largest number of open tabs.
MaxTabs == 2
\* Largest number of children of the element tree's root.
MaxChildren == 6
\* Largest step number.
MaxStep == 1
\* Largest number of upload paths.
MaxPaths == 1
\* Number of agent sessions that call the one service concurrently.
MaxSessions == 2

---------------------------------------------------------------------------
(* Python built-ins *)

None == << >>

Some(x) == <<x>>

Range(s) == { s[i] : i \in 1..Len(s) }

Ok(v) == [exc |-> "", val |-> v]

hasattr(obj, name) == name \in DOMAIN obj

\* obj.name: AttributeError when the object has no such attribute.
getattr(obj, name) ==
    IF name \in DOMAIN obj THEN [exc |-> "", val |-> obj[name]]
                           ELSE [exc |-> "AttributeError", val |-> << >>]

\* s.startswith(prefix)
startswith(s, prefix) ==
    /\ Len(s) >= Len(prefix)
    /\ SubSeq(s, 1, Len(prefix)) = prefix

\* sub in s
contains(s, sub) ==
    \E i \in 1..(Len(s) + 1) :
        /\ i + Len(sub) - 1 <= Len(s)
        /\ SubSeq(s, i, i + Len(sub) - 1) = sub

\* str.lower() of one fragment, over the fragments the model uses.
LowerFragment(f) ==
    CASE f = "SELECT" -> "select"
      [] f = "Select" -> "select"
      [] f = "DIV"    -> "div"
      [] f = "Search" -> "search"
      [] f = "SEARCH" -> "search"
      [] f = "Re"     -> "re"
      [] f = "Buy"    -> "buy"
      [] OTHER        -> f

\* s.lower()
lower(s) == [i \in 1..Len(s) |-> LowerFragment(s[i])]

IsSpace(f) == f \in {" ", "\n", "\t"}

RECURSIVE lstrip(_)
lstrip(s) == IF s # << >> /\ IsSpace(Head(s)) THEN lstrip(Tail(s)) ELSE s

RECURSIVE rstrip(_)
rstrip(s) ==
    IF s # << >> /\ IsSpace(s[Len(s)]) THEN rstrip(SubSeq(s, 1, Len(s) - 1)) ELSE s

\* s.strip()
strip(s) == rstrip(lstrip(s))

\* list(set(xs)): the elements of xs, each once.  Python leaves the order
\* of a set unspecified; the order taken here is that of first occurrence.
RECURSIVE list_set(_)
list_set(xs) ==
    IF xs = << >> THEN << >>
    ELSE LET init == list_set(SubSeq(xs, 1, Len(xs) - 1))
             x    == xs[Len(xs)]
         IN  IF x \in Range(init) THEN init ELSE Append(init, x)

---------------------------------------------------------------------------
(* ExclusionRules: the configuration record and its defaults *)

RuleFamilies ==
    { "enable_domain_exclusions", "enable_tab_exclusions",
      "enable_file_system_exclusions", "enable_upload_exclusions",
      "enable_element_exclusions", "enable_dropdown_exclusions",
      "enable_navigation_exclusions", "enable_content_exclusions",
      "enable_scroll_exclusions", "enable_search_exclusions",
      "enable_wait_exclusions", "enable_pdf_exclusions" }

\* ExclusionRules(): every family enabled, thresholds 5 and 1.
DefaultRules ==
    [ enable_domain_exclusions       |-> TRUE,
      enable_tab_exclusions          |-> TRUE,
      enable_file_system_exclusions  |-> TRUE,
      enable_upload_exclusions       |-> TRUE,
      enable_element_exclusions      |-> TRUE,
      enable_dropdown_exclusions     |-> TRUE,
      enable_navigation_exclusions   |-> TRUE,
      enable_content_exclusions      |-> TRUE,
      enable_scroll_exclusions       |-> TRUE,
      enable_search_exclusions       |-> TRUE,
      enable_wait_exclusions         |-> TRUE,
      enable_pdf_exclusions          |-> TRUE,
      min_elements_for_scrollability |-> 5,
      min_elements_for_interactivity |-> 1 ]

Disabled(rules) == { f \in RuleFamilies : ~rules[f] }

\* ExclusionRules() and ExclusionRules(<one enable flag>=False).
RulesChoices ==
    {DefaultRules} \cup { [DefaultRules EXCEPT ![f] = FALSE] : f \in RuleFamilies }

---------------------------------------------------------------------------
(* ToolExclusionService: the tool categories *)

GOOGLE_SHEETS_TOOLS ==
    << "read_sheet_contents", "read_cell_contents",
       "update_cell_contents", "clear_cell_contents",
       "select_cell_or_range",
       "fallback_input_into_single_selected_cell" >>

TAB_MANAGEMENT_TOOLS == << "switch_tab", "close_tab" >>

FILE_SYSTEM_TOOLS == << "read_file", "replace_file_str" >>

ELEMENT_INTERACTION_TOOLS == << "click_element_by_index", "input_text" >>

DROPDOWN_TOOLS == << "get_dropdown_options", "select_dropdown_option" >>

SCROLL_TOOLS == << "scroll", "scroll_to_text" >>

NAVIGATION_TOOLS == << "go_back" >>

CONTENT_TOOLS == << "extract_structured_data" >>

UPLOAD_TOOLS == << "upload_file" >>

NEVER_EXCLUDE == << "done", "send_keys", "go_to_url" >>

\* self, as __init__ leaves it.
ToolExclusionService(rules) == [exclusion_rules |-> rules]

---------------------------------------------------------------------------
(* ToolExclusionService: the predicates *)

\* url.startswith('https://docs.google.com')
_is_google_sheets_domain(self, url) ==
    startswith(url, <<"https://", "docs.", "google.com">>)

\* As _has_no_file_content, but the content of todo.md is tested untrimmed.
_has_no_file_content_untrimmed(self, file_system) ==
    IF file_system = None \/ ~hasattr(file_system[1], "files") THEN Ok(TRUE)
    ELSE LET files == file_system[1].files
         IN  IF DOMAIN files = {} THEN Ok(TRUE)
             ELSE IF /\ Cardinality(DOMAIN files) = 1
                     /\ "todo.md" \in DOMAIN files
                     /\ hasattr(files["todo.md"], "content")
                     /\ files["todo.md"].content = << >>
                  THEN Ok(TRUE)
                  ELSE Ok(Cardinality(DOMAIN files) = 0)

_has_no_file_content(self, file_system) ==
    IF file_system = None \/ ~hasattr(file_system[1], "files") THEN Ok(TRUE)
    ELSE LET files == file_system[1].files
         IN  IF DOMAIN files = {} THEN Ok(TRUE)
             ELSE IF Cardinality(DOMAIN files) = 1 /\ "todo.md" \in DOMAIN files
                  THEN LET todo_file == files["todo.md"]
                       IN  IF hasattr(todo_file, "content")
                           THEN LET content == getattr(todo_file, "content")
                                IN  IF content.exc # ""
                                    THEN [exc |-> content.exc, val |-> FALSE]
                                    ELSE IF strip(content.val) = << >>
                                         THEN Ok(TRUE)
                                         ELSE Ok(Cardinality(DOMAIN files) = 0)
                           ELSE Ok(Cardinality(DOMAIN files) = 0)
                  ELSE Ok(Cardinality(DOMAIN files) = 0)

_count_interactive_elements(self, element_tree) ==
    IF /\ element_tree # None
       /\ hasattr(element_tree[1], "children")
       /\ element_tree[1].children # << >>
    THEN Len(element_tree[1].children)
    ELSE 0

_has_clickable_elements(self, browser_state) ==
    IF browser_state.element_tree = None THEN FALSE
    ELSE _count_interactive_elements(self, browser_state.element_tree) > 0

\* attributes.get('role', '')
dict_get(d, key, default) == IF key \in DOMAIN d THEN d[key] ELSE default

RECURSIVE _find_dropdown_elements(_, _)
RECURSIVE find_in_children(_, _, _)

\* The loop `for child in element_tree.children`, from child i on.
find_in_children(self, children, i) ==
    IF i > Len(children) THEN Ok(FALSE)
    ELSE LET found == _find_dropdown_elements(self, children[i])
         IN  IF found.exc # "" \/ found.val THEN found
             ELSE find_in_children(self, children, i + 1)

\* As _find_dropdown_elements, but looking at the given node alone.
_find_dropdown_elements_shallow(self, element_tree) ==
    IF hasattr(element_tree, "tag_name")
    THEN IF lower(element_tree.tag_name) = <<"select">> THEN Ok(TRUE)
         ELSE IF hasattr(element_tree, "attributes")
              THEN LET role == dict_get(element_tree.attributes, "role", << >>)
                   IN  Ok(role \in {<<"combobox">>, <<"listbox">>, <<"menu">>})
              ELSE Ok(FALSE)
    ELSE Ok(FALSE)

\* As _find_dropdown_elements, but without the hasattr guard on tag_name.
_find_dropdown_elements_unguarded(self, element_tree) ==
    LET tag_name == getattr(element_tree, "tag_name")
        own ==
            IF tag_name.exc # "" THEN [exc |-> tag_name.exc, val |-> FALSE]
            ELSE IF lower(tag_name.val) = <<"select">> THEN Ok(TRUE)
            ELSE IF hasattr(element_tree, "attributes")
                 THEN LET role == dict_get(element_tree.attributes, "role", << >>)
                      IN  Ok(role \in {<<"combobox">>, <<"listbox">>, <<"menu">>})
                 ELSE Ok(FALSE)
    IN  IF own.exc # "" \/ own.val THEN own
        ELSE IF hasattr(element_tree, "children")
             THEN find_in_children(self, element_tree.children, 1)
             ELSE Ok(FALSE)

\* element_tree is a node here (never None: the caller has checked).
_find_dropdown_elements(self, element_tree) ==
    LET own ==
            IF hasattr(element_tree, "tag_name")
            THEN LET tag_name == getattr(element_tree, "tag_name")
                 IN  IF tag_name.exc # "" THEN [exc |-> tag_name.exc, val |-> FALSE]
                     ELSE IF lower(tag_name.val) = <<"select">> THEN Ok(TRUE)
                     ELSE IF hasattr(element_tree, "attributes")
                          THEN LET role == dict_get(element_tree.attributes, "role", << >>)
                               IN  Ok(role \in {<<"combobox">>, <<"listbox">>, <<"menu">>})
                          ELSE Ok(FALSE)
            ELSE Ok(FALSE)
    IN  IF own.exc # "" \/ own.val THEN own
        ELSE IF hasattr(element_tree, "children")
             THEN find_in_children(self, element_tree.children, 1)
             ELSE Ok(FALSE)

\* As _has_dropdown_elements, but a missing tree counts as "may hold one".
_has_dropdown_elements_assumed(self, browser_state) ==
    IF browser_state.element_tree = None THEN Ok(TRUE)
    ELSE _find_dropdown_elements(self, browser_state.element_tree[1])

\* The nodes _find_dropdown_elements is called on, in the order of the
\* calls, when it is called on element_tree: the node itself, then, unless
\* the node matches, the calls made for each child in turn until one
\* returns True.
RECURSIVE _find_dropdown_elements_calls(_, _)
RECURSIVE calls_in_children(_, _, _)

calls_in_children(self, children, i) ==
    IF i > Len(children) THEN << >>
    ELSE _find_dropdown_elements_calls(self, children[i])
           \o (IF _find_dropdown_elements(self, children[i]).val THEN << >>
               ELSE calls_in_children(self, children, i + 1))

_find_dropdown_elements_calls(self, element_tree) ==
    <<element_tree>>
      \o (IF _find_dropdown_elements_shallow(self, element_tree).val THEN << >>
          ELSE IF hasattr(element_tree, "children")
               THEN calls_in_children(self, element_tree.children, 1)
               ELSE << >>)

_has_dropdown_elements(self, browser_state) ==
    IF browser_state.element_tree = None THEN Ok(FALSE)
    ELSE _find_dropdown_elements(self, browser_state.element_tree[1])

\* As _can_go_back, but a missing step counter counts as "no history".
_can_go_back_strict(self, context) ==
    IF context.step_info # None
    THEN context.step_info[1].step_number > 0
    ELSE FALSE

_can_go_back(self, context) ==
    IF context.step_info # None
    THEN context.step_info[1].step_number > 0
    ELSE TRUE

\* As _is_page_load_failed, but comparing with the wrong literal.
_is_page_load_failed_error(self, browser_state) ==
    IF hasattr(browser_state, "loading_status")
    THEN browser_state.loading_status = Some(<<"error">>)
    ELSE FALSE

_is_page_load_failed(self, browser_state) ==
    IF hasattr(browser_state, "loading_status")
    THEN browser_state.loading_status = Some(<<"failed">>)
    ELSE FALSE

\* As _is_page_scrollable, but with a cut-off below that of the low tier.
_is_page_scrollable_lenient(self, browser_state) ==
    IF browser_state.element_tree = None THEN FALSE
    ELSE LET element_count ==
                 _count_interactive_elements(self, browser_state.element_tree)
         IN  element_count > 1

_is_page_scrollable(self, browser_state) ==
    IF browser_state.element_tree = None THEN FALSE
    ELSE LET element_count ==
                 _count_interactive_elements(self, browser_state.element_tree)
         IN  element_count > 5

_is_duplicate_google_search(self, context) ==
    LET url == context.browser_state.url
    IN  IF /\ contains(url, <<"google.com", "/search">>)
           /\ context.task # None
           /\ context.task[1] # << >>
        THEN contains(lower(context.task[1]), <<"search">>)
        ELSE FALSE

\* As _is_page_fully_loaded, but comparing with the wrong literal.
_is_page_fully_loaded_loaded(self, browser_state) ==
    IF hasattr(browser_state, "loading_status")
    THEN browser_state.loading_status = Some(<<"loaded">>)
    ELSE TRUE

_is_page_fully_loaded(self, browser_state) ==
    IF hasattr(browser_state, "loading_status")
    THEN browser_state.loading_status = Some(<<"complete">>)
    ELSE TRUE

_is_page_too_short_to_scroll(self, browser_state) ==
    LET element_count ==
            _count_interactive_elements(self, browser_state.element_tree)
    IN  element_count < 3

---------------------------------------------------------------------------
(* ToolExclusionService: the three tiers and the two public calls *)

\* As _apply_high_confidence_rules, but reading enable_tab_exclusions the
\* wrong way round.
_apply_high_confidence_rules_inverted(self, context) ==
    LET e1 == IF ~_is_google_sheets_domain(self, context.browser_state.url)
              THEN GOOGLE_SHEETS_TOOLS ELSE << >>
        e2 == e1 \o IF \/ ~self.exclusion_rules.enable_tab_exclusions
                       \/ Len(context.browser_state.tabs) <= 1
                    THEN TAB_MANAGEMENT_TOOLS ELSE << >>
        e3 == e2 \o IF context.file_system = None
                    THEN FILE_SYSTEM_TOOLS ELSE << >>
        e4 == e3 \o IF \/ context.available_file_paths = None
                       \/ context.available_file_paths[1] = << >>
                    THEN UPLOAD_TOOLS ELSE << >>
        no_content == IF context.file_system # None
                      THEN _has_no_file_content(self, context.file_system)
                      ELSE Ok(FALSE)
    IN  IF no_content.exc # "" THEN [exc |-> no_content.exc, val |-> << >>]
        ELSE Ok(e4 \o IF no_content.val
                      THEN <<"read_file", "replace_file_str">> ELSE << >>)

\* As _apply_high_confidence_rules, but the content gate does not first
\* test that there is a file store.
_apply_high_confidence_rules_ungated(self, context) ==
    LET e1 == IF ~_is_google_sheets_domain(self, context.browser_state.url)
              THEN GOOGLE_SHEETS_TOOLS ELSE << >>
        e2 == e1 \o IF Len(context.browser_state.tabs) <= 1
                    THEN TAB_MANAGEMENT_TOOLS ELSE << >>
        e3 == e2 \o IF context.file_system = None
                    THEN FILE_SYSTEM_TOOLS ELSE << >>
        e4 == e3 \o IF \/ context.available_file_paths = None
                       \/ context.available_file_paths[1] = << >>
                    THEN UPLOAD_TOOLS ELSE << >>
        no_content == _has_no_file_content(self, context.file_system)
    IN  IF no_content.exc # "" THEN [exc |-> no_content.exc, val |-> << >>]
        ELSE Ok(e4 \o IF no_content.val
                      THEN <<"read_file", "replace_file_str">> ELSE << >>)

_apply_high_confidence_rules(self, context) ==
    LET e1 == IF ~_is_google_sheets_domain(self, context.browser_state.url)
              THEN GOOGLE_SHEETS_TOOLS ELSE << >>
        e2 == e1 \o IF Len(context.browser_state.tabs) <= 1
                    THEN TAB_MANAGEMENT_TOOLS ELSE << >>
        e3 == e2 \o IF context.file_system = None
                    THEN FILE_SYSTEM_TOOLS ELSE << >>
        e4 == e3 \o IF \/ context.available_file_paths = None
                       \/ context.available_file_paths[1] = << >>
                       \/ Len(context.available_file_paths[1]) = 0
                    THEN UPLOAD_TOOLS ELSE << >>
        no_content == IF context.file_system # None
                      THEN _has_no_file_content(self, context.file_system)
                      ELSE Ok(FALSE)
    IN  IF no_content.exc # "" THEN [exc |-> no_content.exc, val |-> << >>]
        ELSE Ok(e4 \o IF no_content.val
                      THEN <<"read_file", "replace_file_str">> ELSE << >>)

_apply_medium_confidence_rules(self, context) ==
    LET e1 == IF ~_has_clickable_elements(self, context.browser_state)
              THEN ELEMENT_INTERACTION_TOOLS ELSE << >>
        dropdown == _has_dropdown_elements(self, context.browser_state)
        e2 == e1 \o IF ~dropdown.val THEN DROPDOWN_TOOLS ELSE << >>
        e3 == e2 \o IF ~_can_go_back(self, context)
                    THEN NAVIGATION_TOOLS ELSE << >>
        e4 == e3 \o IF _is_page_load_failed(self, context.browser_state)
                    THEN CONTENT_TOOLS ELSE << >>
        e5 == e4 \o IF ~_is_page_scrollable(self, context.browser_state)
                    THEN SCROLL_TOOLS ELSE << >>
    IN  IF dropdown.exc # "" THEN [exc |-> dropdown.exc, val |-> << >>]
        ELSE Ok(e5)

_apply_low_confidence_rules(self, context) ==
    LET e1 == IF _is_duplicate_google_search(self, context)
              THEN <<"search_google">> ELSE << >>
        e2 == e1 \o IF _is_page_fully_loaded(self, context.browser_state)
                    THEN <<"wait">> ELSE << >>
        e3 == e2 \o IF _is_page_too_short_to_scroll(self, context.browser_state)
                    THEN SCROLL_TOOLS ELSE << >>
        e4 == e3 \o IF context.browser_state.is_pdf_viewer
                    THEN CONTENT_TOOLS ELSE << >>
    IN  Ok(e4)

\* As without_never_exclude, with the two lists of the comprehension swapped.
without_never_exclude_swapped(excluded_tools) ==
    SelectSeq(NEVER_EXCLUDE, LAMBDA tool : tool \notin Range(excluded_tools))

\* [tool for tool in excluded_tools if tool not in self.NEVER_EXCLUDE]
without_never_exclude(excluded_tools) ==
    SelectSeq(excluded_tools, LAMBDA tool : tool \notin Range(NEVER_EXCLUDE))

\* As get_excluded_tools, without the list(set(...)) step.
get_excluded_tools_no_set(self, context) ==
    LET high   == _apply_high_confidence_rules(self, context)
        medium == _apply_medium_confidence_rules(self, context)
        low    == _apply_low_confidence_rules(self, context)
    IN  IF high.exc # "" THEN high
        ELSE IF medium.exc # "" THEN medium
        ELSE IF low.exc # "" THEN low
        ELSE Ok(without_never_exclude(high.val \o medium.val \o low.val))

get_excluded_tools(self, context) ==
    LET high   == _apply_high_confidence_rules(self, context)
        medium == _apply_medium_confidence_rules(self, context)
        low    == _apply_low_confidence_rules(self, context)
    IN  IF high.exc # "" THEN high
        ELSE IF medium.exc # "" THEN medium
        ELSE IF low.exc # "" THEN low
        ELSE Ok(without_never_exclude(list_set(high.val \o medium.val \o low.val)))

get_exclusion_stats(self, context) ==
    LET excluded_tools == get_excluded_tools(self, context)
        high   == _apply_high_confidence_rules(self, context)
        medium == _apply_medium_confidence_rules(self, context)
        low    == _apply_low_confidence_rules(self, context)
        no_content == IF context.file_system # None
                      THEN _has_no_file_content(self, context.file_system)
                      ELSE Ok(TRUE)
        first_exc == IF excluded_tools.exc # "" THEN excluded_tools.exc
                     ELSE IF high.exc # "" THEN high.exc
                     ELSE IF medium.exc # "" THEN medium.exc
                     ELSE IF low.exc # "" THEN low.exc
                     ELSE no_content.exc
    IN  IF first_exc # "" THEN [exc |-> first_exc, val |-> << >>]
        ELSE Ok(<< [ total_excluded  |-> Len(excluded_tools.val),
                     excluded_tools  |-> excluded_tools.val,
                     high_confidence_exclusions   |-> Len(high.val),
                     medium_confidence_exclusions |-> Len(medium.val),
                     low_confidence_exclusions    |-> Len(low.val),
                     current_url     |-> context.browser_state.url,
                     tab_count       |-> Len(context.browser_state.tabs),
                     has_file_system |-> context.file_system # None,
                     has_file_content |->
                         IF context.file_system # None THEN ~no_content.val
                                                       ELSE FALSE,
                     available_files |->
                         IF /\ context.available_file_paths # None
                            /\ context.available_file_paths[1] # << >>
                         THEN Len(context.available_file_paths[1]) ELSE 0 ] >>)

---------------------------------------------------------------------------
(* The snapshots a caller can build (views.py, ExclusionContext, and the    *)
(* collaborating types it holds)                                            *)

\* DOM nodes.  An element node has tag_name, attributes and children; a
\* text node has none of the three.
ElementNode(tag, attrs, kids, interactive) ==
    [tag_name |-> tag, attributes |-> attrs, children |-> kids,
     is_interactive |-> interactive]

TextNode == [text |-> <<"hello">>, type |-> <<"TEXT_NODE">>]

Button == ElementNode(<<"button">>, [class |-> <<"btn">>], << >>, TRUE)

\* The i-th child of the root of a tree of n children of the given shape.
Child(shape, n, i) ==
    CASE shape = "text" -> TextNode
      [] shape = "nested" ->
            ElementNode(<<"div">>, << >>, <<TextNode, Button, Button>>, FALSE)
      [] shape = "select" /\ i = n ->
            ElementNode(<<"select">>, << >>, <<TextNode>>, TRUE)
      [] shape = "upper" /\ i = n ->
            ElementNode(<<"SELECT">>, [id |-> <<"s">>], << >>, TRUE)
      [] shape = "combobox" /\ i = n ->
            ElementNode(<<"div">>, [role |-> <<"combobox">>], << >>, TRUE)
      [] shape = "tab" /\ i = n ->
            ElementNode(<<"div">>, [role |-> <<"tab">>], << >>, TRUE)
      [] shape = "deep" /\ i = n ->
            ElementNode(<<"div">>, << >>,
                <<TextNode,
                  ElementNode(<<"ul">>, << >>,
                      <<ElementNode(<<"li">>, [role |-> <<"listbox">>],
                                    << >>, TRUE),
                        TextNode>>, FALSE)>>, FALSE)
      [] OTHER -> Button

TreeShapes ==
    {"plain", "text", "nested", "select", "upper", "combobox", "tab", "deep",
     "menu"}

\* The element tree of shape `shape` whose root has n children.
Tree(shape, n) ==
    ElementNode(<<"body">>,
                IF shape = "menu" THEN [role |-> <<"menu">>] ELSE << >>,
                [i \in 1..n |-> Child(shape, n, i)],
                FALSE)

\* A select element at the given depth below its parent: the parent's own
\* child (depth 1), or wrapped in a div that is not interactive (depth 2).
SelectAt(depth) ==
    IF depth = 1 THEN ElementNode(<<"select">>, << >>, << >>, TRUE)
    ELSE ElementNode(<<"div">>, << >>,
                     <<ElementNode(<<"Select">>, << >>, << >>, TRUE)>>, FALSE)

\* A page of ten interactive nodes, one of them a select element: four
\* buttons under the root, and a form holding five buttons and the select.
TenNodeTree(depth) ==
    ElementNode(<<"body">>, << >>,
        <<Button, Button, Button, Button,
          ElementNode(<<"form">>, << >>,
              <<Button, Button, Button, Button, Button, SelectAt(depth)>>,
              FALSE)>>,
        FALSE)

TenNodeTrees == { TenNodeTree(depth) : depth \in {1, 2} }

\* Roots of 0..MaxChildren plain children, every other shape with
\* MaxChildren children, and the ten-node pages.
ElementTrees ==
    { Tree("plain", n) : n \in 0..MaxChildren }
        \cup { Tree(shape, MaxChildren) : shape \in TreeShapes }
        \cup TenNodeTrees

\* FileSystem objects: files maps a name to a file object with its content.
File(content) == [content |-> content]

FileSystems ==
    { [files |-> << >>],
      [files |-> ("todo.md" :> File(<< >>))],
      [files |-> ("todo.md" :> File(<<" ", "\n">>))],
      [files |-> ("todo.md" :> File(<<" ", "x", "\n">>))],
      [files |-> ("notes.md" :> File(<<" ">>))],
      [files |-> ("notes.md" :> File(<<"x">>))],
      [files |-> ("todo.md" :> File(<< >>)) @@ ("notes.md" :> File(<<"x">>))] }

Urls ==
    { <<"https://", "docs.", "google.com", "/spreadsheets", "/d/1">>,
      <<"https://", "docs.", "google.com", "/document", "/d/1">>,
      <<"https://", "docs.", "google.com", ".evil.com", "/">>,
      <<"https://", "example.com">>,
      <<"https://", "www.", "google.com", "/search", "?q=x">> }

Tasks ==
    { << >>,
      <<"Search", " for", " bananas">>,
      <<"Re", "search", " bananas">>,
      <<"Buy", " bananas">> }

LoadingStatuses == { <<"loading">>, <<"complete">>, <<"failed">>, <<"unknown">> }

Option(S) == {None} \cup { Some(x) : x \in S }

Fields ==
    { "url", "tabs", "element_tree", "loading_status", "is_pdf_viewer",
      "file_system", "available_file_paths", "step_info", "task" }

\* What a caller can put in each field.  loading_status is one level deeper:
\* None is a BrowserStateSummary without the attribute, Some(v) one with it.
FieldValues(f) ==
    CASE f = "url"            -> Urls
      [] f = "tabs"           -> { [i \in 1..n |-> [page_id |-> i]] : n \in 0..MaxTabs }
      [] f = "element_tree"   -> Option(ElementTrees)
      [] f = "loading_status" -> Option(Option(LoadingStatuses))
      [] f = "is_pdf_viewer"  -> BOOLEAN
      [] f = "file_system"    -> Option(FileSystems)
      [] f = "available_file_paths" ->
            Option({ [i \in 1..n |-> <<"/tmp/f", ".pdf">>] : n \in 0..MaxPaths })
      [] f = "step_info"      ->
            Option({ [step_number |-> n, max_steps |-> MaxStep + 1] : n \in 0..MaxStep })
      [] f = "task"           -> Option(Tasks)

\* Two everyday snapshots: a plain page at the first look, and a spreadsheet
\* session in full swing.
BaseFields ==
    { [ url |-> <<"https://", "example.com">>,
        tabs |-> <<[page_id |-> 1]>>,
        element_tree |-> None,
        loading_status |-> Some(None),
        is_pdf_viewer |-> FALSE,
        file_system |-> None,
        available_file_paths |-> None,
        step_info |-> None,
        task |-> None ],
      [ url |-> <<"https://", "docs.", "google.com", "/spreadsheets", "/d/1">>,
        tabs |-> [i \in 1..MaxTabs |-> [page_id |-> i]],
        element_tree |-> Some(Tree("select", MaxChildren)),
        loading_status |-> Some(Some(<<"complete">>)),
        is_pdf_viewer |-> FALSE,
        file_system |-> Some([files |-> ("notes.md" :> File(<<"x">>))]),
        available_file_paths |-> Some([i \in 1..MaxPaths |-> <<"/tmp/f", ".pdf">>]),
        step_info |-> Some([step_number |-> MaxStep, max_steps |-> MaxStep + 1]),
        task |-> Some(<<"Buy", " bananas">>) ] }

\* The sets of at most k fields.
FieldSets(k) == { S \in SUBSET Fields : Cardinality(S) <= k }

\* What field f may hold in a snapshot that departs from base in the fields S.
Pick(f, S, base) == IF f \in S THEN FieldValues(f) ELSE {base[f]}

\* ExclusionContext(browser_state=..., ...) from the chosen field values.
ExclusionContext(fv) ==
    [ browser_state |->
          [ url |-> fv.url, tabs |-> fv.tabs, element_tree |-> fv.element_tree,
            is_pdf_viewer |-> fv.is_pdf_viewer ]
          @@ (IF fv.loading_status = None THEN << >>
              ELSE [loading_status |-> fv.loading_status[1]]),
      file_system |-> fv.file_system,
      available_file_paths |-> fv.available_file_paths,
      step_info |-> fv.step_info,
      task |-> fv.task,
      sensitive_data |-> None,
      page_extraction_llm |-> None ]

---------------------------------------------------------------------------
(* Call frames: the locals of a call in flight *)

Sessions == 1..MaxSessions

Calls == {"get_excluded_tools", "get_exclusion_stats"}

\* A session with no call in flight.
IdleFrame ==
    [ pc |-> "idle", call |-> "", context |-> None, excluded_tools |-> << >>,
      result |-> None, exc |-> "" ]

\* The snapshots the concurrent sessions hand in: the two base snapshots,
\* on an ordinary page and in the PDF viewer.
SessionContexts ==
    { ExclusionContext([base EXCEPT !.is_pdf_viewer = pdf]) :
          base \in BaseFields, pdf \in BOOLEAN }

\* As extend, but the list is one object shared by the calls in flight.
extend_shared(fs, s, tools) ==
    [ t \in DOMAIN fs |->
          IF fs[t].pc \in {"high", "medium", "low", "finish"}
          THEN [fs[t] EXCEPT !.excluded_tools = @ \o tools]
          ELSE fs[t] ]

\* excluded_tools.extend(tools) on the local list of the call of session s.
extend(fs, s, tools) == [fs EXCEPT ![s].excluded_tools = @ \o tools]

\* The call of session s raises exc.
raise(fs, s, exc) == [fs EXCEPT ![s].pc = "returned", ![s].exc = exc]

---------------------------------------------------------------------------
(* The state machine: one service, one caller *)

\* ToolExclusionService(): __init__ sets the default rules.
Init ==
    /\ exclusion_rules = DefaultRules
    /\ step_context = None
    /\ returned_tools = None
    /\ returned_stats = None
    /\ raised = ""
    /\ frames = [s \in Sessions |-> IdleFrame]

\* The caller builds a fresh snapshot for the next decision step (the one of
\* the step before is discarded when its calls have returned): one of the
\* base snapshots, changed in at most k fields.
BuildContext(k) ==
    /\ step_context = None
    /\ \E base \in BaseFields, S \in FieldSets(k) :
         \E url \in Pick("url", S, base),
            tabs \in Pick("tabs", S, base),
            element_tree \in Pick("element_tree", S, base),
            loading_status \in Pick("loading_status", S, base),
            is_pdf_viewer \in Pick("is_pdf_viewer", S, base),
            file_system \in Pick("file_system", S, base),
            available_file_paths \in Pick("available_file_paths", S, base),
            step_info \in Pick("step_info", S, base),
            task \in Pick("task", S, base) :
                step_context' = Some(ExclusionContext(
                    [ url |-> url, tabs |-> tabs, element_tree |-> element_tree,
                      loading_status |-> loading_status,
                      is_pdf_viewer |-> is_pdf_viewer,
                      file_system |-> file_system,
                      available_file_paths |-> available_file_paths,
                      step_info |-> step_info, task |-> task ]))
    /\ returned_tools' = None
    /\ returned_stats' = None
    /\ raised' = ""
    /\ UNCHANGED <<exclusion_rules, frames>>

NewContext == BuildContext(MaxVaried)

NewContextRules == BuildContext(MaxVariedRules)

\* The caller drops the snapshot, and what the calls returned, after the step.
DiscardContext ==
    /\ step_context # None
    /\ step_context' = None
    /\ returned_tools' = None
    /\ returned_stats' = None
    /\ raised' = ""
    /\ UNCHANGED <<exclusion_rules, frames>>

\* Between steps the caller replaces service.exclusion_rules: by the
\* defaults, or by ExclusionRules(<one enable flag>=False).
ConfigureRules ==
    /\ step_context = None
    /\ \E rules \in RulesChoices :
          /\ rules # exclusion_rules
          /\ exclusion_rules' = rules
    /\ UNCHANGED <<step_context, returned_tools, returned_stats, raised, frames>>

\* As GetExcludedTools, but the call normalises the snapshot it was given:
\* context.available_file_paths = context.available_file_paths or [].
GetExcludedToolsNormalising ==
    /\ step_context # None
    /\ LET r == get_excluded_tools(ToolExclusionService(exclusion_rules),
                                   step_context[1])
       IN  /\ returned_tools' = IF r.exc = "" THEN Some(r.val) ELSE None
           /\ raised' = r.exc
    /\ step_context' =
          Some([step_context[1] EXCEPT !.available_file_paths =
                   IF @ = None THEN Some(<< >>) ELSE @])
    /\ UNCHANGED <<exclusion_rules, returned_stats, frames>>

\* service.get_excluded_tools(context)
GetExcludedTools ==
    /\ step_context # None
    /\ LET r == get_excluded_tools(ToolExclusionService(exclusion_rules),
                                   step_context[1])
       IN  /\ returned_tools' = IF r.exc = "" THEN Some(r.val) ELSE None
           /\ raised' = r.exc
    /\ UNCHANGED <<exclusion_rules, step_context, returned_stats, frames>>

\* service.get_exclusion_stats(context)
GetExclusionStats ==
    /\ step_context # None
    /\ LET r == get_exclusion_stats(ToolExclusionService(exclusion_rules),
                                    step_context[1])
       IN  /\ returned_stats' = r.val
           /\ raised' = r.exc
    /\ UNCHANGED <<exclusion_rules, step_context, returned_tools, frames>>

Next == NewContext \/ GetExcludedTools \/ GetExclusionStats \/ DiscardContext

Spec == Init /\ [][Next]_vars

\* The caller edits the rules between steps and evaluates each snapshot.
NextRules ==
    ConfigureRules \/ NewContextRules \/ GetExcludedTools \/ DiscardContext

SpecRules == Init /\ [][NextRules]_vars

---------------------------------------------------------------------------
(* The state machine: one service, several sessions calling it at once.    *)
(* A call advances one statement of get_excluded_tools at a time, and the  *)
(* statements of the calls in flight interleave freely.                    *)

\* Session s calls get_excluded_tools or get_exclusion_stats on a snapshot
\* of its own; the call starts with excluded_tools = [].
Enter(s) ==
    /\ frames[s].pc = "idle"
    /\ \E call \in Calls, context \in SessionContexts :
          frames' = [frames EXCEPT ![s] =
                        [ pc |-> "high", call |-> call,
                          context |-> Some(context),
                          excluded_tools |-> << >>,
                          result |-> None, exc |-> "" ]]
    /\ UNCHANGED <<exclusion_rules, step_context, returned_tools,
                   returned_stats, raised>>

\* excluded_tools.extend(self._apply_high_confidence_rules(context))
ExtendHigh(s) ==
    /\ frames[s].pc = "high"
    /\ LET r == _apply_high_confidence_rules(
                    ToolExclusionService(exclusion_rules), frames[s].context[1])
       IN  frames' = IF r.exc # "" THEN raise(frames, s, r.exc)
                     ELSE [extend(frames, s, r.val) EXCEPT ![s].pc = "medium"]
    /\ UNCHANGED <<exclusion_rules, step_context, returned_tools,
                   returned_stats, raised>>

\* excluded_tools.extend(self._apply_medium_confidence_rules(context))
ExtendMedium(s) ==
    /\ frames[s].pc = "medium"
    /\ LET r == _apply_medium_confidence_rules(
                    ToolExclusionService(exclusion_rules), frames[s].context[1])
       IN  frames' = IF r.exc # "" THEN raise(frames, s, r.exc)
                     ELSE [extend(frames, s, r.val) EXCEPT ![s].pc = "low"]
    /\ UNCHANGED <<exclusion_rules, step_context, returned_tools,
                   returned_stats, raised>>

\* excluded_tools.extend(self._apply_low_confidence_rules(context))
ExtendLow(s) ==
    /\ frames[s].pc = "low"
    /\ LET r == _apply_low_confidence_rules(
                    ToolExclusionService(exclusion_rules), frames[s].context[1])
       IN  frames' = IF r.exc # "" THEN raise(frames, s, r.exc)
                     ELSE [extend(frames, s, r.val) EXCEPT ![s].pc = "finish"]
    /\ UNCHANGED <<exclusion_rules, step_context, returned_tools,
                   returned_stats, raised>>

\* The duplicates and the protected actions are removed and the list is
\* returned: to the caller, or to get_exclusion_stats.
Finish(s) ==
    /\ frames[s].pc = "finish"
    /\ LET excluded_tools ==
               without_never_exclude(list_set(frames[s].excluded_tools))
       IN  frames' =
               IF frames[s].call = "get_excluded_tools"
               THEN [frames EXCEPT ![s].pc = "returned",
                                   ![s].excluded_tools = excluded_tools,
                                   ![s].result = Some(excluded_tools)]
               ELSE [frames EXCEPT ![s].pc = "stats",
                                   ![s].excluded_tools = excluded_tools]
    /\ UNCHANGED <<exclusion_rules, step_context, returned_tools,
                   returned_stats, raised>>

\* get_exclusion_stats builds its dict around the list it got back.
BuildStats(s) ==
    /\ frames[s].pc = "stats"
    /\ LET self    == ToolExclusionService(exclusion_rules)
           context == frames[s].context[1]
           high    == _apply_high_confidence_rules(self, context)
           medium  == _apply_medium_confidence_rules(self, context)
           low     == _apply_low_confidence_rules(self, context)
           no_content == IF context.file_system # None
                         THEN _has_no_file_content(self, context.file_system)
                         ELSE Ok(TRUE)
           first_exc == IF high.exc # "" THEN high.exc
                        ELSE IF medium.exc # "" THEN medium.exc
                        ELSE IF low.exc # "" THEN low.exc
                        ELSE no_content.exc
       IN  frames' =
             IF first_exc # "" THEN raise(frames, s, first_exc)
             ELSE [frames EXCEPT
                     ![s].pc = "returned",
                     ![s].result = Some(
                       [ total_excluded  |-> Len(frames[s].excluded_tools),
                         excluded_tools  |-> frames[s].excluded_tools,
                         high_confidence_exclusions   |-> Len(high.val),
                         medium_confidence_exclusions |-> Len(medium.val),
                         low_confidence_exclusions    |-> Len(low.val),
                         current_url     |-> context.browser_state.url,
                         tab_count       |-> Len(context.browser_state.tabs),
                         has_file_system |-> context.file_system # None,
                         has_file_content |->
                             IF context.file_system # None THEN ~no_content.val
                                                           ELSE FALSE,
                         available_files |->
                             IF /\ context.available_file_paths # None
                                /\ context.available_file_paths[1] # << >>
                             THEN Len(context.available_file_paths[1])
                             ELSE 0 ])]
    /\ UNCHANGED <<exclusion_rules, step_context, returned_tools,
                   returned_stats, raised>>

\* The session takes the value its call returned and drops the snapshot.
Return(s) ==
    /\ frames[s].pc = "returned"
    /\ frames' = [frames EXCEPT ![s] = IdleFrame]
    /\ UNCHANGED <<exclusion_rules, step_context, returned_tools,
                   returned_stats, raised>>

NextConcurrent ==
    \E s \in Sessions :
        \/ Enter(s)
        \/ ExtendHigh(s)
        \/ ExtendMedium(s)
        \/ ExtendLow(s)
        \/ Finish(s)
        \/ BuildStats(s)
        \/ Return(s)

SpecConcurrent == Init /\ [][NextConcurrent]_vars

---------------------------------------------------------------------------
(* Vocabulary of the properties *)

\* get_excluded_tools has returned a list for the snapshot of this step.
Evaluated == step_context # None /\ returned_tools # None

\* The returned list, as a set (meaningful when Evaluated).
Tools == Range(returned_tools[1])

Ctx == step_context[1]

Protected == {"done", "send_keys", "go_to_url"}

\* The load status is missing: the browsing state has no such attribute, or
\* the attribute is None.
LoadStatusMissing(browser_state) ==
    \/ ~hasattr(browser_state, "loading_status")
    \/ browser_state.loading_status = None

LoadStatusIs(browser_state, status) ==
    /\ hasattr(browser_state, "loading_status")
    /\ browser_state.loading_status = Some(status)

\* A file store without real content: no file, or only a blank todo.md.
NoRealContent(store) ==
    \/ DOMAIN store.files = {}
    \/ /\ DOMAIN store.files = {"todo.md"}
       /\ strip(store.files["todo.md"].content) = << >>

\* Some child of the root is a text node (no tag_name, attributes, children).
HasTextChild(tree) ==
    \E i \in 1..Len(tree.children) : ~hasattr(tree.children[i], "tag_name")

\* The nodes of a tree in document order (a node, then its children's
\* subtrees from left to right).
RECURSIVE NodeList(_)
RECURSIVE NodeLists(_, _)

NodeLists(children, i) ==
    IF i > Len(children) THEN << >>
    ELSE NodeList(children[i]) \o NodeLists(children, i + 1)

NodeList(node) ==
    <<node>> \o (IF hasattr(node, "children") THEN NodeLists(node.children, 1)
                                               ELSE << >>)

\* The number of interactive nodes in the whole tree.
InteractiveCount(tree) ==
    LET nodes == NodeList(tree)
    IN  Cardinality({ i \in 1..Len(nodes) :
                        /\ hasattr(nodes[i], "is_interactive")
                        /\ nodes[i].is_interactive })

\* The node is a select element, whatever the case of its tag.
IsSelect(node) ==
    /\ hasattr(node, "tag_name")
    /\ lower(node.tag_name) = <<"select">>

\* The node is a dropdown: a select element, or one whose accessibility
\* role is combobox, listbox or menu.
IsDropdownNode(node) ==
    \/ IsSelect(node)
    \/ /\ hasattr(node, "attributes")
       /\ "role" \in DOMAIN node.attributes
       /\ node.attributes["role"] \in {<<"combobox">>, <<"listbox">>, <<"menu">>}

---------------------------------------------------------------------------
(* C1 *)

\* C1: whatever the snapshot and the rules, no protected action ('done',
\* 'send_keys', 'go_to_url') is in the list get_excluded_tools returns.
C1_ProtectedNeverExcluded == Evaluated => Tools \cap Protected = {}

\* Under rules other than the defaults, a call has returned a list that
\* excludes ten actions or more.
C1_Witness ==
    /\ Evaluated
    /\ exclusion_rules # DefaultRules
    /\ Cardinality(Tools) >= 10

---------------------------------------------------------------------------
(* C2 *)

\* C2: the returned list holds no action twice, and as a set it is the
\* union of the outputs of the three tiers minus the protected actions.
C2_NoDuplicatesUnionOfTiers ==
    Evaluated =>
        LET self   == ToolExclusionService(exclusion_rules)
            high   == _apply_high_confidence_rules(self, Ctx).val
            medium == _apply_medium_confidence_rules(self, Ctx).val
            low    == _apply_low_confidence_rules(self, Ctx).val
        IN  /\ Len(returned_tools[1]) = Cardinality(Tools)
            /\ Tools = (Range(high) \cup Range(medium) \cup Range(low)) \ Protected

\* The scroll tools come from the medium and the low tier, and
\* extract_structured_data from the load-failure and the PDF gate.
C2_Witness ==
    /\ Evaluated
    /\ LET self == ToolExclusionService(exclusion_rules)
       IN  /\ "scroll" \in Range(_apply_medium_confidence_rules(self, Ctx).val)
           /\ "scroll" \in Range(_apply_low_confidence_rules(self, Ctx).val)
           /\ "extract_structured_data" \in
                  Range(_apply_medium_confidence_rules(self, Ctx).val)
           /\ "extract_structured_data" \in
                  Range(_apply_low_confidence_rules(self, Ctx).val)

---------------------------------------------------------------------------
(* C3 *)

\* C3: a call leaves the snapshot and the rules as they were (every step
\* taken while a snapshot is held), a list once returned for a snapshot is
\* returned again by every later call on it, and after any history of calls
\* the returned list, and the list in the statistics, is the one a newly
\* constructed service with the same rules returns for the snapshot.
C3_PureAndStateless ==
    /\ [][ step_context # None /\ step_context' # None =>
              /\ step_context' = step_context
              /\ exclusion_rules' = exclusion_rules
              /\ returned_tools # None => returned_tools' = returned_tools
              /\ returned_stats # None => returned_stats' = returned_stats ]_vars
    /\ [](Evaluated =>
              returned_tools[1] =
                  get_excluded_tools(ToolExclusionService(exclusion_rules), Ctx).val)
    /\ [](returned_stats # None =>
              returned_stats[1].excluded_tools =
                  get_excluded_tools(ToolExclusionService(exclusion_rules), Ctx).val)

\* Both calls have returned on one snapshot, which holds no upload paths
\* and excludes something.
C3_Witness ==
    /\ Evaluated
    /\ returned_stats # None
    /\ Ctx.available_file_paths = None
    /\ Tools # {}

---------------------------------------------------------------------------
(* C4 *)

\* The actions only the rule of family f excludes.
FamilyTools(f) ==
    CASE f = "enable_domain_exclusions"      -> Range(GOOGLE_SHEETS_TOOLS)
      [] f = "enable_tab_exclusions"         -> Range(TAB_MANAGEMENT_TOOLS)
      [] f = "enable_file_system_exclusions" -> Range(FILE_SYSTEM_TOOLS)
      [] f = "enable_upload_exclusions"      -> Range(UPLOAD_TOOLS)
      [] f = "enable_element_exclusions"     -> Range(ELEMENT_INTERACTION_TOOLS)
      [] f = "enable_dropdown_exclusions"    -> Range(DROPDOWN_TOOLS)
      [] f = "enable_navigation_exclusions"  -> Range(NAVIGATION_TOOLS)
      [] f = "enable_search_exclusions"      -> {"search_google"}
      [] f = "enable_wait_exclusions"        -> {"wait"}
      [] OTHER                               -> {}

\* C4: a rule family whose enable flag is false contributes no exclusion:
\* none of the actions that only this family excludes is in the result, and
\* with the PDF family off (or the content family off) extract_structured_data
\* is in the result only if the other of the two gates fires.
C4_DisabledFamilyExcludesNothing ==
    Evaluated =>
        /\ \A f \in Disabled(exclusion_rules) : FamilyTools(f) \cap Tools = {}
        /\ ~exclusion_rules.enable_pdf_exclusions
               /\ ~LoadStatusIs(Ctx.browser_state, <<"failed">>)
             => "extract_structured_data" \notin Tools
        /\ ~exclusion_rules.enable_content_exclusions
               /\ ~Ctx.browser_state.is_pdf_viewer
             => "extract_structured_data" \notin Tools

---------------------------------------------------------------------------
(* C5 *)

\* C5: for the rules in force and every family enabled in them, the list
\* returned for the same snapshot with that family disabled is, as a set,
\* within the list returned under the rules in force.
C5_MonotonicPermissiveness ==
    Evaluated =>
        \A f \in RuleFamilies \ Disabled(exclusion_rules) :
            Range(get_excluded_tools(
                      ToolExclusionService([exclusion_rules EXCEPT ![f] = FALSE]),
                      Ctx).val) \subseteq Tools

\* A snapshot with several tabs was evaluated under rules with a family
\* already disabled, and something is excluded.
C5_Witness ==
    /\ Evaluated
    /\ Disabled(exclusion_rules) # {}
    /\ Len(Ctx.browser_state.tabs) > 1
    /\ Tools # {}

---------------------------------------------------------------------------
(* C6 *)

\* C6: when the load status is missing, the load-failure gate and the
\* fully-loaded gate both stay shut: wait is not in the result, and
\* extract_structured_data is in it only by the PDF gate.
C6_MissingLoadStatusExcludesNothing ==
    Evaluated /\ LoadStatusMissing(Ctx.browser_state) =>
        /\ "wait" \notin Tools
        /\ ~Ctx.browser_state.is_pdf_viewer => "extract_structured_data" \notin Tools

---------------------------------------------------------------------------
(* C7 *)

\* C7: no call raises: whatever optional fields are absent and whatever
\* nodes and files the snapshot holds, each call made on it has returned
\* its value (raised names the exception of the last call, "" for none).
C7_NeverRaises == raised = ""

\* A list was returned for a snapshot without upload paths, step info and
\* task, whose tree holds text nodes and whose store holds an empty todo.md.
C7_Witness ==
    /\ Evaluated
    /\ Ctx.available_file_paths = None
    /\ Ctx.step_info = None
    /\ Ctx.task = None
    /\ Ctx.browser_state.element_tree # None
    /\ HasTextChild(Ctx.browser_state.element_tree[1])
    /\ Ctx.file_system # None
    /\ DOMAIN Ctx.file_system[1].files = {"todo.md"}
    /\ Ctx.file_system[1].files["todo.md"].content = << >>

---------------------------------------------------------------------------
(* C8 *)

\* C8: read_file and replace_file_str are in the result exactly when there
\* is no file store or the store holds no real content, and write_file is
\* never in the result.
C8_FileToolsIffNoContent ==
    Evaluated =>
        LET no_files == \/ Ctx.file_system = None
                        \/ NoRealContent(Ctx.file_system[1])
        IN  /\ "read_file" \in Tools <=> no_files
            /\ "replace_file_str" \in Tools <=> no_files
            /\ "write_file" \notin Tools

\* A store whose only file is a todo.md of white space alone: both actions
\* are excluded.
C8_Witness ==
    /\ Evaluated
    /\ Ctx.file_system # None
    /\ DOMAIN Ctx.file_system[1].files = {"todo.md"}
    /\ Ctx.file_system[1].files["todo.md"].content # << >>
    /\ {"read_file", "replace_file_str"} \subseteq Tools

---------------------------------------------------------------------------
(* C9 *)

\* C9: go_back is in the result exactly when step information is present
\* and its step number is 0.
C9_GoBackIffStepZero ==
    Evaluated =>
        ("go_back" \in Tools <=>
            Ctx.step_info # None /\ Ctx.step_info[1].step_number = 0)

\* A snapshot at step 0 was evaluated, and go_back is excluded.
C9_Witness ==
    /\ Evaluated
    /\ Ctx.step_info # None
    /\ Ctx.step_info[1].step_number = 0
    /\ "go_back" \in Tools

---------------------------------------------------------------------------
(* C10 *)

\* C10: extract_structured_data is in the result whenever the load status
\* is 'failed', and in general exactly when the load status is 'failed' or
\* the PDF-viewer flag is set.
C10_ExtractIffFailedOrPdf ==
    Evaluated =>
        /\ LoadStatusIs(Ctx.browser_state, <<"failed">>)
               => "extract_structured_data" \in Tools
        /\ "extract_structured_data" \in Tools <=>
               \/ LoadStatusIs(Ctx.browser_state, <<"failed">>)
               \/ Ctx.browser_state.is_pdf_viewer

\* The load failed on a page that is not a PDF, and the action is excluded.
C10_Witness ==
    /\ Evaluated
    /\ LoadStatusIs(Ctx.browser_state, <<"failed">>)
    /\ ~Ctx.browser_state.is_pdf_viewer
    /\ "extract_structured_data" \in Tools

---------------------------------------------------------------------------
(* C11 *)

\* url.startswith of the spreadsheet-application origin.
SpreadsheetOrigin == <<"https://", "docs.", "google.com">>

\* The actions the bare-page scenario lists.
BarePageTools ==
    Range(GOOGLE_SHEETS_TOOLS) \cup Range(TAB_MANAGEMENT_TOOLS)
        \cup Range(FILE_SYSTEM_TOOLS) \cup Range(UPLOAD_TOOLS)
        \cup Range(ELEMENT_INTERACTION_TOOLS) \cup Range(DROPDOWN_TOOLS)
        \cup Range(SCROLL_TOOLS)

\* A page off the spreadsheet origin with at most one tab, no element tree,
\* no file store and no (or an empty list of) upload paths.
BarePage(context) ==
    /\ ~startswith(context.browser_state.url, SpreadsheetOrigin)
    /\ Len(context.browser_state.tabs) <= 1
    /\ context.browser_state.element_tree = None
    /\ context.file_system = None
    /\ \/ context.available_file_paths = None
       \/ context.available_file_paths[1] = << >>

---------------------------------------------------------------------------
(* C12 *)

SpreadsheetUrlPrefix == <<"https://", "docs.", "google.com", "/spreadsheets">>

\* The store holds a file other than todo.md whose content is not empty.
HasRealFile(store) ==
    \E name \in DOMAIN store.files :
        /\ name # "todo.md"
        /\ store.files[name].content # << >>

\* A spreadsheet session in full swing: a spreadsheet URL, several tabs,
\* ten interactive nodes one of which is a select element, a real file,
\* upload paths, a step number of 1 or more and load status 'complete'.
SpreadsheetSession(context) ==
    /\ startswith(context.browser_state.url, SpreadsheetUrlPrefix)
    /\ Len(context.browser_state.tabs) > 1
    /\ context.file_system # None
    /\ HasRealFile(context.file_system[1])
    /\ context.available_file_paths # None
    /\ context.available_file_paths[1] # << >>
    /\ context.step_info # None
    /\ context.step_info[1].step_number >= 1
    /\ LoadStatusIs(context.browser_state, <<"complete">>)
    /\ context.browser_state.element_tree # None
    /\ LET nodes == NodeList(context.browser_state.element_tree[1])
       IN  /\ InteractiveCount(context.browser_state.element_tree[1]) = 10
           /\ \E i \in 1..Len(nodes) : IsSelect(nodes[i])

\* The actions the spreadsheet scenario lists as retained.
SessionTools ==
    Range(GOOGLE_SHEETS_TOOLS) \cup Range(TAB_MANAGEMENT_TOOLS)
        \cup Range(FILE_SYSTEM_TOOLS) \cup Range(UPLOAD_TOOLS)
        \cup Range(DROPDOWN_TOOLS)

\* C12: for a spreadsheet session in full swing none of the spreadsheet, tab,
\* file read/replace, upload and dropdown actions is in the result, and
\* wait is in the result.
C12_SpreadsheetSessionRetains ==
    Evaluated /\ SpreadsheetSession(Ctx) =>
        /\ SessionTools \cap Tools = {}
        /\ "wait" \in Tools

\* The session was evaluated on the page whose select element lies two
\* levels below the form, and wait is excluded.
C12_Witness ==
    /\ Evaluated
    /\ SpreadsheetSession(Ctx)
    /\ Ctx.browser_state.element_tree = Some(TenNodeTree(2))
    /\ "wait" \in Tools

---------------------------------------------------------------------------
(* C13 *)

\* What the call of a frame returns when it runs alone on its snapshot.
RunAlone(frame) ==
    LET self == ToolExclusionService(exclusion_rules)
    IN  IF frame.call = "get_excluded_tools"
        THEN Some(get_excluded_tools(self, frame.context[1]).val)
        ELSE get_exclusion_stats(self, frame.context[1]).val

\* The call of session s is between its first and its last statement.
InFlight(s) == frames[s].pc \in {"medium", "low", "finish", "stats"}

\* C13: however the statements of the calls in flight interleave, a step of
\* one call leaves the frame of every other session and the shared rules as
\* they were, and every call that has returned has returned, without raising,
\* the value it returns when run alone on its own snapshot.
C13_ConcurrentCallsIndependent ==
    /\ [][ \A s \in Sessions :
               frames'[s] # frames[s] =>
                   /\ \A t \in Sessions \ {s} : frames'[t] = frames[t]
                   /\ exclusion_rules' = exclusion_rules ]_vars
    /\ [](\A s \in Sessions :
              frames[s].pc = "returned" =>
                  /\ frames[s].exc = ""
                  /\ frames[s].result = RunAlone(frames[s]))

\* Two different calls on different snapshots are in flight at once: one
\* has collected the output of all three tiers, the other that of two, and
\* the second holds an action the first does not.
C13_Witness ==
    \E s, t \in Sessions :
        /\ s # t
        /\ frames[s].pc = "finish"
        /\ frames[t].pc = "low"
        /\ frames[s].call # frames[t].call
        /\ frames[s].context # frames[t].context
        /\ frames[s].excluded_tools # << >>
        /\ frames[t].excluded_tools # << >>
        /\ Range(frames[t].excluded_tools) \ Range(frames[s].excluded_tools) # {}

---------------------------------------------------------------------------
(* C14 *)

\* C14: the statistics agree with the evaluation of the same snapshot:
\* total_excluded is the length of the evaluate result, each per-tier count
\* is the number of distinct actions the tier excludes, total_excluded is at
\* most the sum of the three counts, and has_file_content is false when
\* there is no file store.
C14_StatsConsistent ==
    step_context # None /\ returned_stats # None =>
        LET stats  == returned_stats[1]
            self   == ToolExclusionService(exclusion_rules)
            high   == _apply_high_confidence_rules(self, Ctx).val
            medium == _apply_medium_confidence_rules(self, Ctx).val
            low    == _apply_low_confidence_rules(self, Ctx).val
        IN  /\ stats.total_excluded = Len(get_excluded_tools(self, Ctx).val)
            /\ Evaluated => stats.total_excluded = Len(returned_tools[1])
            /\ stats.high_confidence_exclusions = Cardinality(Range(high))
            /\ stats.medium_confidence_exclusions = Cardinality(Range(medium))
            /\ stats.low_confidence_exclusions = Cardinality(Range(low))
            /\ stats.total_excluded <=
                   stats.high_confidence_exclusions
                     + stats.medium_confidence_exclusions
                     + stats.low_confidence_exclusions
            /\ Ctx.file_system = None => ~stats.has_file_content

\* Statistics and list were returned for a snapshot without a file store
\* whose scroll actions two tiers exclude: the total is below the sum.
C14_Witness ==
    /\ Evaluated
    /\ returned_stats # None
    /\ Ctx.file_system = None
    /\ returned_stats[1].high_confidence_exclusions > 0
    /\ returned_stats[1].total_excluded <
           returned_stats[1].high_confidence_exclusions
             + returned_stats[1].medium_confidence_exclusions
             + returned_stats[1].low_confidence_exclusions

---------------------------------------------------------------------------
(* C15 *)

\* The number of interactive elements of the page: those of the whole tree,
\* 0 when there is no tree.
PageInteractiveCount(browser_state) ==
    IF browser_state.element_tree = None THEN 0
    ELSE InteractiveCount(browser_state.element_tree[1])

\* C15: the medium tier excludes scroll and scroll_to_text exactly when the
\* number of interactive elements in the whole element tree (0 without a
\* tree) is not greater than the configured min_elements_for_scrollability.
C15_CoarseScrollGateByTreeCount ==
    Evaluated =>
        LET medium == Range(_apply_medium_confidence_rules(
                                ToolExclusionService(exclusion_rules), Ctx).val)
            few    == PageInteractiveCount(Ctx.browser_state)
                          <= exclusion_rules.min_elements_for_scrollability
        IN  /\ "scroll" \in medium <=> few
            /\ "scroll_to_text" \in medium <=> few

---------------------------------------------------------------------------
(* C16 *)

\* C16: get_dropdown_options and select_dropdown_option are in the result
\* exactly when there is no element tree or no node of it, the root
\* included and at any depth, is a dropdown; and the search of a tree calls
\* on its nodes in document order, each at most once, and makes no call
\* after the first call on a dropdown node.
C16_DropdownSearch ==
    Evaluated =>
        LET tree == Ctx.browser_state.element_tree
        IN  IF tree = None
            THEN Range(DROPDOWN_TOOLS) \subseteq Tools
            ELSE LET nodes == NodeList(tree[1])
                     calls == _find_dropdown_elements_calls(
                                  ToolExclusionService(exclusion_rules), tree[1])
                     none  == \A i \in 1..Len(nodes) : ~IsDropdownNode(nodes[i])
                 IN  /\ "get_dropdown_options" \in Tools <=> none
                     /\ "select_dropdown_option" \in Tools <=> none
                     /\ Len(calls) <= Len(nodes)
                     /\ calls = SubSeq(nodes, 1, Len(calls))
                     /\ \A i \in 1..(Len(calls) - 1) : ~IsDropdownNode(calls[i])
                     /\ none => calls = nodes
                     /\ ~none => IsDropdownNode(calls[Len(calls)])

\* The listbox three levels down was found, the dropdown actions are kept,
\* and the node after it was not searched.
C16_Witness ==
    /\ Evaluated
    /\ Ctx.browser_state.element_tree = Some(Tree("deep", MaxChildren))
    /\ Range(DROPDOWN_TOOLS) \cap Tools = {}
    /\ Len(_find_dropdown_elements_calls(ToolExclusionService(exclusion_rules),
                                         Tree("deep", MaxChildren)))
         < Len(NodeList(Tree("deep", MaxChildren)))

---------------------------------------------------------------------------
(* C17 *)

\* The URL is on the spreadsheet application: host docs.google.com, path
\* under /spreadsheets.
OnSpreadsheetApplication(url) == startswith(url, SpreadsheetUrlPrefix)

\* C17: the six spreadsheet actions are excluded all or none; all six are
\* in the result exactly when the URL does not start with the origin of the
\* spreadsheet application; a URL that is not on the spreadsheet
\* application, one on another path or on a look-alike host that shares the
\* prefix included, has all six excluded, and a spreadsheet URL has none.
C17_SpreadsheetToolsAllOrNone ==
    Evaluated =>
        LET sheets == Range(GOOGLE_SHEETS_TOOLS)
            url    == Ctx.browser_state.url
        IN  /\ sheets \subseteq Tools \/ sheets \cap Tools = {}
            /\ sheets \subseteq Tools <=> ~startswith(url, SpreadsheetOrigin)
            /\ ~OnSpreadsheetApplication(url) => sheets \subseteq Tools
            /\ OnSpreadsheetApplication(url) => sheets \cap Tools = {}

---------------------------------------------------------------------------
(* C18 *)

\* The low tier with its too-short-to-scroll rule taken out.
LowTierWithoutScrollRule(self, context) ==
    LET e1 == IF _is_duplicate_google_search(self, context)
              THEN <<"search_google">> ELSE << >>
        e2 == e1 \o IF _is_page_fully_loaded(self, context.browser_state)
                    THEN <<"wait">> ELSE << >>
        e4 == e2 \o IF context.browser_state.is_pdf_viewer
                    THEN CONTENT_TOOLS ELSE << >>
    IN  e4

\* The evaluate result, as a set, with that rule taken out.
ResultWithoutLowScrollRule(self, context) ==
    ( Range(_apply_high_confidence_rules(self, context).val)
        \cup Range(_apply_medium_confidence_rules(self, context).val)
        \cup Range(LowTierWithoutScrollRule(self, context)) ) \ Protected

\* C18: wherever the low-tier too-short-to-scroll gate fires, the medium-tier
\* scroll gate fires too, so the result is the same with the low-tier rule
\* taken out; and scroll and scroll_to_text are in the result for every
\* element count from 0 to 5.
C18_LowScrollGateSubsumed ==
    Evaluated =>
        LET self  == ToolExclusionService(exclusion_rules)
            count == _count_interactive_elements(
                         self, Ctx.browser_state.element_tree)
        IN  /\ _is_page_too_short_to_scroll(self, Ctx.browser_state)
                  => ~_is_page_scrollable(self, Ctx.browser_state)
            /\ Tools = ResultWithoutLowScrollRule(self, Ctx)
            /\ count \in 0..5 => Range(SCROLL_TOOLS) \subseteq Tools

\* A page with a tree of fewer than three elements was evaluated: both
\* tiers list the scroll actions.
C18_Witness ==
    /\ Evaluated
    /\ Ctx.browser_state.element_tree # None
    /\ _is_page_too_short_to_scroll(ToolExclusionService(exclusion_rules),
                                    Ctx.browser_state)
    /\ "scroll" \in Range(_apply_medium_confidence_rules(
                               ToolExclusionService(exclusion_rules), Ctx).val)
    /\ "scroll" \in Range(_apply_low_confidence_rules(
                               ToolExclusionService(exclusion_rules), Ctx).val)
    /\ Range(SCROLL_TOOLS) \subseteq Tools

===========================================================================
